---- MODULE Spec2Model ----
(***************************************************************************)
(* Infinite-terrain walking demos (taharazashaikh97/galli).                *)
(*                                                                         *)
(* The five source files hold seven self-contained programs, each ending   *)
(* with its own call of animate():                                         *)
(*   "script_1"  src/script.js          lines   1-134                      *)
(*   "script_2"  src/script.js          lines 136-382  (water, trees)      *)
(*   "part0_1"   src/unnamed/part_000   lines   1-144                      *)
(*   "part0_2"   src/unnamed/part_000   lines 146-374  (updateSystems)     *)
(*   "part1"     src/unnamed/part_001                                      *)
(*   "part2"     src/unnamed/part_002   (biomes, trees)                    *)
(*   "part3"     src/unnamed/part_003   (ray-cast before chunk loading)    *)
(*                                                                         *)
(* The second program of src/script.js is taken function by function as    *)
(* written and run the way the other six run.                              *)
(*                                                                         *)
(* Numbers are fixed point: lengths in tenths of a world unit, angles in   *)
(* milliradians, heights and trigonometric values in thousandths.          *)
(***************************************************************************)
EXTENDS Integers, Sequences, FiniteSets, TLC

VARIABLES
    variant,        \* which of the seven programs is running
    px, pz,         \* player.position.x / .z          (tenths)
    rotY,           \* player.rotation.y               (mrad)
    yaw, pitch,     \* mouse-look angles               (mrad)
    pointerLock,    \* document.pointerLockElement === renderer.domElement
    keys,           \* the names k with keys[k] === true
    chunks,         \* the Map: key -> chunk object
    terrainGroup,   \* terrainGroup.children, as the sequence of object ids
    nextId,         \* number of chunk objects allocated so far
    rndPos,         \* position of Math.random() in its stream
    rafPending,     \* animate callbacks requested and not yet run
    lastCenter,     \* history: the center chunk of the latest frame
    visited,        \* history: every center chunk a frame has used
    time,           \* the clock of updateLighting, in steps of daySpeed
    batteryLevel,   \* batteryLevel                    (hundredths of a percent)
    flashlight,     \* flashlight.visible
    py,             \* player.position.y              (thousandths)
    velocityY,      \* velocityY                       (thousandths per frame)
    canJump,        \* canJump
    ground,         \* history: the ground heights the latest frame snapped to
    frames,         \* history: frames and runs of frames taken so far
    twin            \* the chunk store of a second run of the same program

\* the state of the clock, the battery and the flashlight
systems == <<time, batteryLevel, flashlight>>

\* the state of the player's vertical motion
body == <<py, velocityY, canJump, ground>>

vars == <<variant, px, pz, rotY, yaw, pitch, pointerLock, keys, chunks,
          terrainGroup, nextId, rndPos, rafPending, lastCenter, visited,
          systems, body, frames, twin>>

Variants == {"script_1", "script_2", "part0_1", "part0_2", "part1", "part2", "part3"}

-----------------------------------------------------------------------------
(* Bounds of the exploration *)

\* how far (tenths) past the first chunk boundary the player may walk
Beyond == 10
\* how many quarter turns of yaw the mouse may accumulate either way
MaxTurns == 1
\* how many frames of A/D steering either way (the programs that steer)
MaxSteer == 2
\* how far (tenths) off the two axes through the origin the player may stray
Lane == 0
\* positions 0 .. MaxSeed of the random stream at which the program may start
MaxSeed == 1
\* createChunk is applied directly until the store holds this many chunks
MaxGenChunks == 2
\* how many single frames of the clock, battery and flashlight are followed
MaxFrames == 7
\* length of the one run of frames taken without an event in between
LongRun == 1245
\* how many frames a jump is followed to its end
JumpSpan == 60

\* how many single frames of the battery are followed between the handlers
MaxBatteryFrames == 4
\* length of the run of frames that leads from the morning to the sunset
HalfDayRun == 26998

\* how many single frames of the vertical motion are followed
MaxBodyFrames == 4
\* length of the one run of frames followed without an event of the keyboard
FallRun == 45

-----------------------------------------------------------------------------
(* Per-program constants *)

chunkSize(v) == IF v = "part2" THEN 1200 ELSE 1000

\* a render distance that keeps only the chunk under the player
renderDist_centerOnly(v) == 0

renderDist(v) == IF v \in {"script_2", "part0_2", "part2"} THEN 2 ELSE 3

\* PlaneGeometry(chunkSize, chunkSize, n, n)
Segments(v) == CASE v = "script_1" -> 25
                 [] v = "part2"    -> 12
                 [] OTHER          -> 20

\* forward/backward speed, tenths per frame
Speed(v) == CASE v \in {"script_2", "part0_2"} -> 7
              [] v = "part2"                   -> 8
              [] OTHER                         -> 6

\* A/D speed where A/D strafe
StrafeSpeed(v) == IF v = "part0_1" THEN 4 ELSE Speed(v)

\* A/D turn the player instead of strafing
Steers(v) == v \in {"script_1", "part3"}

\* click and mousemove handlers are registered
HasMouse(v) == ~Steers(v)

\* movement reads the variable yaw instead of player.rotation.y
MovesByYaw(v) == v \in {"script_2", "part2"}

HasWater(v) == v = "script_2"

HasTrees(v) == v \in {"script_2", "part2"}

-----------------------------------------------------------------------------
(* Arithmetic *)

Abs(n) == IF n < 0 THEN -n ELSE n

Min(a, b) == IF a < b THEN a ELSE b

Max(a, b) == IF a > b THEN a ELSE b

\* THREE.MathUtils.clamp
Clamp(x, lo, hi) == Max(lo, Min(hi, x))

\* a value in millionths to the nearest thousandth
Milli(n) == (n + 500) \div 1000

\* Math.floor(n / d) in the place of Math.round(n / d)
MathRound_floor(n, d) == n \div d

\* rounding with a tie going away from zero in the place of Math.round
MathRound_awayFromZero(n, d) ==
    IF n >= 0 THEN (2 * n + d) \div (2 * d) ELSE -((d - 2 * n) \div (2 * d))

\* Math.round(n / d): the nearest integer, a tie going to the larger one
MathRound(n, d) == (2 * n + d) \div (2 * d)

\* Math.sin on milliradians, in thousandths (Bhaskara's rational approximation)
HalfWave(x) == (16 * x * (3142 - x)) \div ((49360820 - 4 * x * (3142 - x)) \div 1000)

SinM(a) == LET r == a % 6283
           IN  IF r <= 3141 THEN HalfWave(r) ELSE -HalfWave(Min(r - 3142, 3141))

CosM(a) == SinM(a + 1571)

-----------------------------------------------------------------------------
(* HeightField and BiomeClassifier.  x, z in tenths; result in thousandths *)

\* part_002 getBiomeData: snow = clamp(z / 500, 0, 1),
\* heightFactor = clamp(|x| / 600, 0.2, 1.5); the color is the lerp by snow
getBiomeData(x, z) ==
    [snow         |-> Clamp(z \div 5, 0, 1000),
     heightFactor |-> Clamp(Abs(x) \div 6, 200, 1500),
     color        |-> Clamp(z \div 5, 0, 1000)]

\* sin(x * 0.04) * cos(z * 0.04) * 8 + sin(x * 0.1) * 2
getHeightPlain(x, z) ==
    Milli(SinM(4 * x) * CosM(4 * z) * 8) + SinM(10 * x) * 2

\* part_002: sin(x*0.02)*cos(z*0.02)*15*heightFactor + sin(x*0.1)*cos(z*0.1)*2
getHeightBiome(x, z) ==
    LET data  == getBiomeData(x, z)
        base  == Milli(Milli(SinM(2 * x) * CosM(2 * z)) * 15 * data.heightFactor)
        bumps == Milli(SinM(10 * x) * CosM(10 * z) * 2)
    IN  base + bumps

getHeight(v, x, z) ==
    IF v = "part2" THEN getHeightBiome(x, z) ELSE getHeightPlain(x, z)

-----------------------------------------------------------------------------
(* Geometry *)

\* the vertices of PlaneGeometry(S, S, n, n), by column ix and row iy
PlaneVertices(v) == (0 .. Segments(v)) \X (0 .. Segments(v))

\* local plane coordinates of a vertex: x = ix * S/n - S/2, y = -(iy * S/n - S/2)
LocalX(v, vert) == vert[1] * (chunkSize(v) \div Segments(v)) - chunkSize(v) \div 2

LocalY(v, vert) == -(vert[2] * (chunkSize(v) \div Segments(v)) - chunkSize(v) \div 2)

\* the sampling without the sign flip of the plane's y
SampleArgs_noFlip(v, lx, ly, x, z) ==
    <<lx + (x * chunkSize(v)), ly + (z * chunkSize(v))>>

\* the arguments of getHeight in the vertex loop of createChunk:
\*   getHeight(v[i] + (x * chunkSize), -(v[i + 1] - (z * chunkSize)))
SampleArgs(v, lx, ly, x, z) ==
    <<lx + (x * chunkSize(v)), -(ly - (z * chunkSize(v)))>>

\* mesh.rotation.x = -Math.PI / 2
MeshRotationX == -1571

\* the placement with x and z exchanged
ChunkPosition_swapped(v, x, z) == <<z * chunkSize(v), x * chunkSize(v)>>

\* mesh.position.set / chunkGroup.position.set(x * chunkSize, 0, z * chunkSize)
ChunkPosition(v, x, z) == <<x * chunkSize(v), z * chunkSize(v)>>

\* The vertex loop writes a height that is getHeight of an affine function of
\* the local coordinates; the written surface is kept as that function's frame:
\* the arguments sampled at local (0,0), (1,0) and (0,1).
SurfaceOf(v, x, z) ==
    [o  |-> SampleArgs(v, 0, 0, x, z),
     ex |-> SampleArgs(v, 1, 0, x, z),
     ey |-> SampleArgs(v, 0, 1, x, z),
     written |-> Cardinality(PlaneVertices(v))]

\* the world (x, z) whose elevation the chunk stores at local (lx, ly)
SampledAt(c, lx, ly) ==
    <<c.surface.o[1] + lx * (c.surface.ex[1] - c.surface.o[1])
                     + ly * (c.surface.ey[1] - c.surface.o[1]),
      c.surface.o[2] + lx * (c.surface.ex[2] - c.surface.o[2])
                     + ly * (c.surface.ey[2] - c.surface.o[2])>>

\* the elevation the chunk stores at local (lx, ly)
StoredHeight(v, c, lx, ly) ==
    getHeight(v, SampledAt(c, lx, ly)[1], SampledAt(c, lx, ly)[2])

\* World (x, z) at which local (lx, ly, h) of the rotated, translated mesh is
\* drawn: a rotation by t about X maps (x, y, z) to
\* (x, y cos t - z sin t, y sin t + z cos t).
RenderedAt(c, lx, ly, h) ==
    <<c.position[1] + lx,
      c.position[2] + Milli(ly * SinM(c.rotX)) + Milli(h * CosM(c.rotX)) \div 100>>

-----------------------------------------------------------------------------
(* Decorations *)

\* Values Math.random() returns, in thousandths, as a stream that repeats; the
\* program starts reading it at a position chosen freely (Seeds).
RandomTable == <<0, 999, 500, 250, 733, 127, 881>>

Seeds == 0 .. MaxSeed

MathRandom(n) == RandomTable[(n % Len(RandomTable)) + 1]

\* (Math.random() - 0.5) * chunkSize
TreeOffset(v, r) == ((r - 500) * chunkSize(v)) \div 1000

\* const waterLevel = -1.5
waterLevel == -1500

\* the tree count taken from the biome data at (z, x) in the place of (x, z)
TreeDraws_swapped(v, x, z) ==
    CASE v = "script_2" -> 15
      [] v = "part2"    ->
            IF getBiomeData(z * chunkSize(v), x * chunkSize(v)).snow > 700
            THEN 3 ELSE 8
      [] OTHER          -> 0

\* number of tree positions drawn for a chunk: 15 in script_2;
\* in part_002 data.snow > 0.7 ? 3 : 8, data taken at the chunk center
TreeDraws(v, x, z) ==
    CASE v = "script_2" -> 15
      [] v = "part2"    ->
            IF getBiomeData(x * chunkSize(v), z * chunkSize(v)).snow > 700
            THEN 3 ELSE 8
      [] OTHER          -> 0

\* Math.random() calls per drawn tree (part_002's createTree draws a rotation)
CallsPerTree(v) == IF v = "part2" THEN 3 ELSE 2

\* a tree grown on any ground above the water level itself
TreeGrows_noMargin(v, ty) == v = "script_2" => ty > waterLevel

\* script_2 grows a tree only if ty > waterLevel + 0.5
TreeGrows(v, ty) == v = "script_2" => ty > waterLevel + 500

\* a candidate tree whose height is sampled at its local offsets, without the
\* chunk's own offset
TreeAt_local(v, x, z, rnd, i) ==
    LET tx == TreeOffset(v, MathRandom(rnd + CallsPerTree(v) * i))
        tz == TreeOffset(v, MathRandom(rnd + CallsPerTree(v) * i + 1))
    IN  [tx |-> tx, tz |-> tz, ty |-> getHeight(v, tx, tz)]

\* the i-th candidate tree (i from 0) of chunk (x, z), reading the random
\* stream from position rnd: local offsets tx, tz and height
\*   ty = getHeight(tx + x * chunkSize, tz + z * chunkSize)
TreeAt(v, x, z, rnd, i) ==
    LET tx == TreeOffset(v, MathRandom(rnd + CallsPerTree(v) * i))
        tz == TreeOffset(v, MathRandom(rnd + CallsPerTree(v) * i + 1))
    IN  [tx |-> tx, tz |-> tz,
         ty |-> getHeight(v, tx + (x * chunkSize(v)), tz + (z * chunkSize(v)))]

RECURSIVE TreesFrom(_, _, _, _, _)
TreesFrom(v, x, z, rnd, i) ==
    IF i >= TreeDraws(v, x, z) THEN <<>>
    ELSE LET t == TreeAt(v, x, z, rnd, i)
         IN  (IF TreeGrows(v, t.ty) THEN <<t>> ELSE <<>>)
                \o TreesFrom(v, x, z, rnd, i + 1)

-----------------------------------------------------------------------------
(* ChunkStore *)

\* const key = `${x},${z}`
Key(x, z) == <<x, z>>

\* a chunk whose heights are sampled with an offset taken from the random
\* stream
NewChunk_seeded(v, id, x, z, rnd) ==
    [id       |-> id,
     surface  |-> SurfaceOf(v, x + rnd, z),
     rotX     |-> MeshRotationX,
     position |-> ChunkPosition(v, x, z),
     biome    |-> IF v = "part2"
                  THEN getBiomeData(x * chunkSize(v), z * chunkSize(v)).color
                  ELSE 0,
     water    |-> IF HasWater(v) THEN <<waterLevel>> ELSE <<>>,
     trees    |-> TreesFrom(v, x, z, rnd, 0)]

\* The object createChunk builds for (x, z): the terrain mesh (alone, or with
\* water and trees in a chunkGroup), rotated and positioned.
NewChunk(v, id, x, z, rnd) ==
    [id       |-> id,
     surface  |-> SurfaceOf(v, x, z),
     rotX     |-> MeshRotationX,
     position |-> ChunkPosition(v, x, z),
     biome    |-> IF v = "part2"
                  THEN getBiomeData(x * chunkSize(v), z * chunkSize(v)).color
                  ELSE 0,
     water    |-> IF HasWater(v) THEN <<waterLevel>> ELSE <<>>,
     trees    |-> TreesFrom(v, x, z, rnd, 0)]

\* createChunk without the early return on a stored key
createChunk_rebuilds(v, st, x, z) ==
    LET mesh == NewChunk(v, st.nextId, x, z, st.rnd)
    IN  [chunks |-> (Key(x, z) :> mesh) @@ st.chunks,
         group  |-> Append(st.group, mesh.id),
         nextId |-> st.nextId + 1,
         rnd    |-> st.rnd + CallsPerTree(v) * TreeDraws(v, x, z)]

\* createChunk looking up the key of (z, x)
createChunk_swappedKey(v, st, x, z) ==
    IF Key(z, x) \in DOMAIN st.chunks THEN st
    ELSE LET mesh == NewChunk(v, st.nextId, x, z, st.rnd)
         IN  [chunks |-> (Key(x, z) :> mesh) @@ st.chunks,
              group  |-> Append(st.group, mesh.id),
              nextId |-> st.nextId + 1,
              rnd    |-> st.rnd + CallsPerTree(v) * TreeDraws(v, x, z)]

\* createChunk keeping only the newest chunk in the Map
createChunk_evicts(v, st, x, z) ==
    IF Key(x, z) \in DOMAIN st.chunks THEN st
    ELSE LET mesh == NewChunk(v, st.nextId, x, z, st.rnd)
         IN  [chunks |-> (Key(x, z) :> mesh),
              group  |-> Append(st.group, mesh.id),
              nextId |-> st.nextId + 1,
              rnd    |-> st.rnd + CallsPerTree(v) * TreeDraws(v, x, z)]

\* createChunk without chunks.set(key, mesh)
createChunk_noSet(v, st, x, z) ==
    IF Key(x, z) \in DOMAIN st.chunks THEN st
    ELSE LET mesh == NewChunk(v, st.nextId, x, z, st.rnd)
         IN  [chunks |-> st.chunks,
              group  |-> Append(st.group, mesh.id),
              nextId |-> st.nextId + 1,
              rnd    |-> st.rnd + CallsPerTree(v) * TreeDraws(v, x, z)]

\* createChunk without terrainGroup.add(mesh)
createChunk_noAdd(v, st, x, z) ==
    IF Key(x, z) \in DOMAIN st.chunks THEN st
    ELSE LET mesh == NewChunk(v, st.nextId, x, z, st.rnd)
         IN  [chunks |-> (Key(x, z) :> mesh) @@ st.chunks,
              group  |-> st.group,
              nextId |-> st.nextId + 1,
              rnd    |-> st.rnd + CallsPerTree(v) * TreeDraws(v, x, z)]

\* A store is [chunks, group, nextId, rnd]: the Map, terrainGroup.children,
\* the allocation count and the position in the random stream.
\* createChunk: if (chunks.has(key)) return; ... terrainGroup.add(mesh);
\* chunks.set(key, mesh)
createChunk(v, st, x, z) ==
    IF Key(x, z) \in DOMAIN st.chunks THEN st
    ELSE LET mesh == NewChunk(v, st.nextId, x, z, st.rnd)
         IN  [chunks |-> (Key(x, z) :> mesh) @@ st.chunks,
              group  |-> Append(st.group, mesh.id),
              nextId |-> st.nextId + 1,
              rnd    |-> st.rnd + CallsPerTree(v) * TreeDraws(v, x, z)]

\* the center chunk: Math.round(player.position.x / chunkSize), same for z
CenterOf(v, x, z) == <<MathRound(x, chunkSize(v)), MathRound(z, chunkSize(v))>>

\* the coordinates the two nested loops visit
Window(c, d) == ((c[1] - d) .. (c[1] + d)) \X ((c[2] - d) .. (c[2] + d))

\* the inner loop with z < pZ + d as its test
RECURSIVE LoadColumn_short(_, _, _, _, _)
LoadColumn_short(v, st, x, z, zEnd) ==
    IF z >= zEnd THEN st
    ELSE LET next == createChunk(v, st, x, z)
         IN  IF next.nextId >= st.nextId
             THEN LoadColumn_short(v, next, x, z + 1, zEnd)
             ELSE st

\* for (let z = pZ - d; z <= pZ + d; z++) createChunk(x, z)
RECURSIVE LoadColumn(_, _, _, _, _)
LoadColumn(v, st, x, z, zEnd) ==
    IF z > zEnd THEN st
    ELSE LET next == createChunk(v, st, x, z)
         IN  \* (the test is always true; it has the store computed before
             \*  the next call instead of after the last one)
             IF next.nextId >= st.nextId
             THEN LoadColumn(v, next, x, z + 1, zEnd)
             ELSE st

\* for (let x = pX - d; x <= pX + d; x++) <the loop over z>
RECURSIVE LoadRows(_, _, _, _, _, _)
LoadRows(v, st, x, xEnd, zStart, zEnd) ==
    IF x > xEnd THEN st
    ELSE LoadRows(v, LoadColumn(v, st, x, zStart, zEnd), x + 1, xEnd, zStart, zEnd)

\* the chunk-loading step of animate, for the player at (x, z)
LoadChunks(v, st, x, z) ==
    LET c == CenterOf(v, x, z)
        d == renderDist(v)
    IN  LoadRows(v, st, c[1] - d, c[1] + d, c[2] - d, c[2] + d)

-----------------------------------------------------------------------------
(* Player movement *)

\* keys the keyboard sends: W, and A where A turns the player
KeyInputs(v) == IF v \in {"script_1", "part3"} THEN {"w", "a"} ELSE {"w"}

\* (movementX, movementY) of the mouse: a quarter turn
WalkMouse == {<<785, 0>>}

\* the angle the W/S/A/D displacement is computed from
Heading(v, rot, yw) == IF MovesByYaw(v) THEN yw ELSE rot

\* The movement block of animate: W/S move along the heading, A/D strafe or
\* (script_1, part_003) turn the player by 0.04 rad.
Move(v, ks, x, z, rot, yw) ==
    LET h  == Heading(v, rot, yw)
        fx == Milli(SinM(h) * Speed(v))
        fz == Milli(CosM(h) * Speed(v))
        sx == Milli(CosM(h) * StrafeSpeed(v))
        sz == Milli(SinM(h) * StrafeSpeed(v))
        w  == IF "w" \in ks THEN 1 ELSE 0
        s  == IF "s" \in ks THEN 1 ELSE 0
        a  == IF "a" \in ks THEN 1 ELSE 0
        d  == IF "d" \in ks THEN 1 ELSE 0
    IN  IF Steers(v)
        THEN [x   |-> x - w * fx + s * fx,
              z   |-> z - w * fz + s * fz,
              rot |-> rot + a * 40 - d * 40]
        ELSE [x   |-> x - w * fx + s * fx - a * sx + d * sx,
              z   |-> z - w * fz + s * fz + a * sz - d * sz,
              rot |-> rot]

\* the part of the world the exploration covers
InRegion(v, x, z) ==
    /\ Abs(x) <= chunkSize(v) \div 2 + Beyond
    /\ Abs(z) <= chunkSize(v) \div 2 + Beyond
    /\ Min(Abs(x), Abs(z)) <= Lane

-----------------------------------------------------------------------------
(* Clock, battery and flashlight *)

\* the programs with a battery
HasBattery(v) == v \in {"script_2", "part0_2", "part2"}

\* frames in one turn of the sun: 2 PI / daySpeed
DayFrames(v) == CASE v = "script_1" -> 25200
                  [] v = "part3"    -> 3142
                  [] OTHER          -> 54000

\* let time = 0 / Math.PI / 2 / Math.PI, in steps of daySpeed
StartTime(v) == CASE v = "part2" -> 13500
                  [] v = "part3" -> 1571
                  [] OTHER       -> 0

\* let batteryLevel = 100
FullBattery == 10000

\* batteryLevel -= 0.08 (0.07 in part_002) per frame with the flashlight on
Drain(v) == IF v = "part2" THEN 7 ELSE 8

\* batteryLevel += 0.04 (0.05 in part_002) per daytime frame with it off
Recharge(v) == IF v = "part2" THEN 5 ELSE 4

\* batteryLevel = Math.max(0, Math.min(100, batteryLevel)): not in part_002
ClampsBattery(v) == v \in {"script_2", "part0_2"}

\* updateSystems without its last line: the flashlight is never switched off
SwitchesOff_never(v) == FALSE

\* if (batteryLevel <= 0) flashlight.visible = false: only in updateSystems
SwitchesOff(v) == v = "part0_2"

\* updateLighting returns sunY > 0, sunY = sin(time) * orbitRadius
IsDay(v, t) == LET ph == t % DayFrames(v)
               IN  0 < ph /\ 2 * ph < DayFrames(v)

\* updateLighting: time += daySpeed; part_002 takes the value of the time
\* slider instead while the slider has the focus
updateLighting(v, t, slider) ==
    IF v = "part2" /\ slider # <<>> THEN slider[1] ELSE t + 1

\* the battery logic recharging whenever the flashlight is off, by night too
BatteryStep_dayAndNight(v, b, light, isDay) ==
    LET b1 == IF light THEN b - Drain(v)
              ELSE IF b < FullBattery THEN b + Recharge(v) ELSE b
    IN  IF ClampsBattery(v) THEN Max(0, Min(FullBattery, b1)) ELSE b1

\* the battery logic of one frame: drain, or recharge by day, then the clamp
BatteryStep(v, b, light, isDay) ==
    LET b1 == IF light THEN b - Drain(v)
              ELSE IF isDay /\ b < FullBattery THEN b + Recharge(v) ELSE b
    IN  IF ClampsBattery(v) THEN Max(0, Min(FullBattery, b1)) ELSE b1

\* the systems part of one animate call, from s = [time, battery, light]
SystemsStep(v, s, slider) ==
    LET t == updateLighting(v, s.time, slider)
        b == IF HasBattery(v)
             THEN BatteryStep(v, s.battery, s.light, IsDay(v, t))
             ELSE s.battery
    IN  [time    |-> t,
         battery |-> b,
         light   |-> IF SwitchesOff(v) /\ b <= 0 THEN FALSE ELSE s.light]

\* n animate calls in a row with no listener running between them
RECURSIVE SystemsRun(_, _, _)
SystemsRun(v, s, n) ==
    IF n = 0 THEN s
    ELSE IF n = 1 THEN SystemsStep(v, s, <<>>)
    ELSE LET h   == n \div 2
             mid == SystemsRun(v, s, h)
         IN  IF mid.time >= 0 THEN SystemsRun(v, mid, n - h) ELSE s

\* the programs with gravity and a jump
HasJump(v) == v \in {"script_2", "part0_2", "part2"}

\* the keydown listener itself sets velocityY (part_002 jumps inside animate)
JumpsOnKeyDown(v) == v \in {"script_2", "part0_2"}

\* velocityY = 0.5 (0.45 in part_002)
JumpSpeed(v) == IF v = "part2" THEN 450 ELSE 500

\* keydown of F: flashlight.visible = !flashlight.visible, in the programs with
\* a battery only if batteryLevel > 0
ToggleFlashlight(v, b, light) ==
    IF HasBattery(v) /\ ~(b > 0) THEN light ELSE ~light

-----------------------------------------------------------------------------
(* Gravity, jump and grounding (the programs with a jump).  Heights in      *)
(* thousandths, horizontal lengths in tenths.                               *)

\* velocityY -= 0.02
Gravity == 20

\* const ground = hit.point.y + 1.5 (1.6 in part_002)
StandHeight(v) == IF v = "part2" THEN 1600 ELSE 1500

\* the ray starts at player.position.y + 10 (+ 5 in part_002), pointing down
RayRise(v) == IF v = "part2" THEN 5000 ELSE 10000

\* the height within a cell of edge e, at (u, w) from its corner a, of the
\* triangles (a, b, d) and (b, c, d) the plane's cell is split into:
\* a = (ix, iy), b = (ix, iy + 1), c = (ix + 1, iy + 1), d = (ix + 1, iy)
OnTriangles(e, u, w, ha, hb, hc, hd) ==
    IF u + w <= e
    THEN ha + MathRound(u * (hd - ha) + w * (hb - ha), e)
    ELSE hc + MathRound((e - u) * (hb - hc) + (e - w) * (hd - hc), e)

\* the heights the chunk stores at the corners of the cell (ix, iy)
CellHeights(v, c, ix, iy) ==
    [p \in {ix, ix + 1} \X {iy, iy + 1} |->
        StoredHeight(v, c, LocalX(v, p), LocalY(v, p))]

\* height of the terrain mesh of chunk k at local (ox, oz) from its corner
MeshHeightAt(v, H, e, ix, iy, ox, oz) ==
    OnTriangles(e, ox - ix * e, oz - iy * e,
                H[ix, iy], H[ix, iy + 1], H[ix + 1, iy + 1], H[ix + 1, iy])

\* the cell of a plane of n cells of edge e that holds the offset o
CellOf(o, e, n) == Min(o \div e, n - 1)

\* height of the terrain mesh of chunk k at world (x, z)
MeshHeight(v, c, k, x, z) ==
    LET S  == chunkSize(v)
        e  == S \div Segments(v)
        ox == x - (k[1] * S - S \div 2)
        oz == z - (k[2] * S - S \div 2)
    IN  MeshHeightAt(v, CellHeights(v, c, CellOf(ox, e, Segments(v)), CellOf(oz, e, Segments(v))),
                     e, CellOf(ox, e, Segments(v)), CellOf(oz, e, Segments(v)), ox, oz)

\* the shape of a tree above its foot: radius of the leaves' cone (tenths),
\* its rim and tip, radius of the trunk's top and its height
TreeShape(v) ==
    IF v = "part2"
    THEN [leafR |-> 15, rim |-> 500,  tip |-> 4500, trunkR |-> 2, trunkTop |-> 1500]
    ELSE [leafR |-> 12, rim |-> 1000, tip |-> 4000, trunkR |-> 2, trunkTop |-> 1500]

\* the integer square root of a small number
ISqrt(m) == CHOOSE r \in 0 .. 16 : r * r <= m /\ m < (r + 1) * (r + 1)

\* where the downward ray through (x, z) meets the tree t of chunk object c:
\* the leaves' cone, taken as round, and the top of the trunk
TreeHits(v, c, t, x, z) ==
    LET sh == TreeShape(v)
        dx == x - (c.position[1] + t.tx)
        dz == z - (c.position[2] + t.tz)
        q  == dx * dx + dz * dz
    IN  (IF q < sh.leafR * sh.leafR
         THEN {[kind |-> "leaves",
                y |-> t.ty + sh.tip - ((sh.tip - sh.rim) * ISqrt(q)) \div sh.leafR]}
         ELSE {})
        \cup
        (IF q < sh.trunkR * sh.trunkR
         THEN {[kind |-> "trunk", y |-> t.ty + sh.trunkTop]}
         ELSE {})

\* raycaster.intersectObjects(terrainGroup.children, true) for the ray from
\* (x, top, z) down: the terrain mesh and the water plane of the chunk under
\* the ray, and the trees of the chunks whose footprint the ray passes within
\* a tree's radius
RayHits(v, st, x, z, top) ==
    LET k     == CenterOf(v, x, z)
        reach == chunkSize(v) \div 2 + TreeShape(v).leafR
        near  == {j \in Window(k, 1) \cap DOMAIN st.chunks :
                     /\ Abs(x - j[1] * chunkSize(v)) <= reach
                     /\ Abs(z - j[2] * chunkSize(v)) <= reach}
        under == IF k \in DOMAIN st.chunks
                 THEN {[kind |-> "terrain", y |-> MeshHeight(v, st.chunks[k], k, x, z)]}
                        \cup {[kind |-> "water", y |-> st.chunks[k].water[i]] :
                                 i \in 1 .. Len(st.chunks[k].water)}
                 ELSE {}
        trees == UNION {UNION {TreeHits(v, st.chunks[j], st.chunks[j].trees[i], x, z) :
                                  i \in 1 .. Len(st.chunks[j].trees)} : j \in near}
    IN  {h \in under \cup trees : h.y <= top}

\* hit[0]: the hit nearest to the ray's origin
NearestHit(hits) == CHOOSE h \in hits : \A g \in hits : g.y <= h.y

\* the object kinds a program's grounding accepts:
\*   script.js 340-343 hit[0]; script.js 354 terrainHit (PlaneGeometry of the
\*   terrain color); part_000 343 (the children are the terrain meshes);
\*   part_002 184 (geometry.type === "PlaneGeometry")
AnyKind == {"terrain", "water", "leaves", "trunk"}

\* the snap of the player b = [y, vy, canJump, ground] onto the height g if
\* the player is at or below it
SnapTo(b, g, clears) ==
    IF b.y <= g
    THEN [y |-> g, vy |-> 0, canJump |-> TRUE, ground |-> Append(b.ground, g)]
    ELSE IF clears THEN [b EXCEPT !.canJump = FALSE] ELSE b

\* if (hit.length > 0): the ground is the nearest hit plus the stand height
SnapOnto(v, b, hits, clears) ==
    IF hits = {} THEN b
    ELSE SnapTo(b, NearestHit(hits).y + StandHeight(v), clears)

\* one grounding block: the ray from y + rise, the nearest hit of an accepted
\* kind, the snap if the player is at or below ground
GroundingBlock(v, st, x, z, b, kinds, clears) ==
    SnapOnto(v, b, {h \in RayHits(v, st, x, z, b.y + RayRise(v)) : h.kind \in kinds}, clears)

\* the object kinds the grounding that ends a frame accepts: the terrain mesh
\* (script.js 354, part_000 343), any PlaneGeometry (part_002 184)
Accepts(v) == IF v = "part2" THEN {"terrain", "water"} ELSE {"terrain"}

\* the grounding of one frame: script.js runs "Grounding", then "Grounding &
\* Swimming Physics"; part_000 clears canJump when the player is above ground
Grounding(v, st, x, z, b) ==
    LET first == IF v = "script_2"
                 THEN GroundingBlock(v, st, x, z, b, AnyKind, FALSE)
                 ELSE b
    IN  GroundingBlock(v, st, x, z, first, Accepts(v), v = "part0_2")

\* the vertical part of one animate call with the player moved to (x, z):
\* part_002 starts a jump here, then gravity, then the grounding
BodyStep(v, st, ks, x, z, b) ==
    LET jumps == v = "part2" /\ "space" \in ks /\ b.canJump
        vy    == (IF jumps THEN JumpSpeed(v) ELSE b.vy) - Gravity
    IN  Grounding(v, st, x, z,
                  [y |-> b.y + vy, vy |-> vy,
                   canJump |-> IF jumps THEN FALSE ELSE b.canJump,
                   ground |-> <<>>])

-----------------------------------------------------------------------------
(* The program *)

\* player.position.y before the first frame (part_002: player.position.y = 20)
StartY(v) == IF v = "part2" THEN 20000 ELSE 0

\* the state of the walk: position, view, keys and the chunk store
walk == <<px, pz, rotY, yaw, pitch, pointerLock, keys, chunks, terrainGroup,
          nextId, rndPos, rafPending, lastCenter, visited>>

Store == [chunks |-> chunks, group |-> terrainGroup, nextId |-> nextId, rnd |-> rndPos]

\* the script has run to its end: the first animate() call has returned
Started == visited # {} \/ frames # <<0, 0>>

Init ==
    /\ variant \in Variants
    /\ px = 0 /\ pz = 0 /\ rotY = 0
    /\ yaw = 0 /\ pitch = 0
    /\ pointerLock = FALSE
    /\ keys = {}
    /\ chunks = <<>>
    /\ terrainGroup = <<>>
    /\ nextId = 0
    /\ rndPos \in (IF HasTrees(variant) THEN Seeds ELSE {0})
    /\ rafPending = 0
    /\ lastCenter = <<0, 0>>
    /\ visited = {}
    /\ time = StartTime(variant)
    /\ batteryLevel = FullBattery
    /\ flashlight = FALSE
    /\ py = StartY(variant)
    /\ velocityY = 0
    /\ canJump = FALSE
    /\ ground = <<>>
    /\ frames = <<0, 0>>
    /\ twin = [chunks |-> <<>>, group |-> <<>>, nextId |-> 0,
               rnd |-> IF HasTrees(variant) THEN (rndPos + 1) % Len(RandomTable) ELSE 0]

\* animate requesting itself twice
requestAnimationFrame_twice(n) == n + 2

\* requestAnimationFrame(animate): one more callback pending
requestAnimationFrame(n) == n + 1

\* animate(): the first call is the script's own, each later one consumes a
\* pending callback.  This is its scheduling, movement and chunk loading.
AnimateWalk ==
    /\ ~Started \/ rafPending > 0
    /\ LET m  == Move(variant, keys, px, pz, rotY, yaw)
           st == LoadChunks(variant, Store, m.x, m.z)
       IN  /\ InRegion(variant, m.x, m.z)
           /\ Steers(variant) => Abs(m.rot) <= MaxSteer * 40
           /\ rafPending' = requestAnimationFrame(IF Started THEN rafPending - 1 ELSE 0)
           /\ px' = m.x /\ pz' = m.z /\ rotY' = m.rot
           /\ chunks' = st.chunks
           /\ terrainGroup' = st.group
           /\ nextId' = st.nextId
           /\ rndPos' = st.rnd % Len(RandomTable)
           /\ lastCenter' = CenterOf(variant, m.x, m.z)
           /\ visited' = visited \cup {CenterOf(variant, m.x, m.z)}
    /\ UNCHANGED <<variant, yaw, pitch, pointerLock, keys>>

\* animate() followed for the walk and the chunk store
Animate ==
    /\ AnimateWalk
    /\ UNCHANGED <<systems, body, frames, twin>>

\* keydown: Space with canJump set starts a jump (part_002 only records the
\* key), F toggles the flashlight, then keys[e.key.toLowerCase()] = true
KeyDown(k) ==
    /\ Started
    /\ velocityY' = IF k = "space" /\ JumpsOnKeyDown(variant) /\ canJump
                    THEN JumpSpeed(variant) ELSE velocityY
    /\ flashlight' = IF k = "f"
                     THEN ToggleFlashlight(variant, batteryLevel, flashlight)
                     ELSE flashlight
    /\ keys' = keys \cup {k}
    /\ UNCHANGED <<time, batteryLevel, py, canJump, ground, frames, twin>>
    /\ UNCHANGED <<variant, px, pz, rotY, yaw, pitch, pointerLock, chunks,
                   terrainGroup, nextId, rndPos, rafPending, lastCenter, visited>>

\* keyup: keys[e.key.toLowerCase()] = false
KeyUp(k) ==
    /\ Started
    /\ keys' = keys \ {k}
    /\ UNCHANGED <<systems, body, frames, twin>>
    /\ UNCHANGED <<variant, px, pz, rotY, yaw, pitch, pointerLock, chunks,
                   terrainGroup, nextId, rndPos, rafPending, lastCenter, visited>>

\* click: renderer.domElement.requestPointerLock()
\* (part_002: only if the click is not on an INPUT element)
Click(target) ==
    /\ Started
    /\ HasMouse(variant)
    /\ pointerLock' = IF variant = "part2" /\ target = "INPUT"
                      THEN pointerLock ELSE TRUE
    /\ UNCHANGED <<systems, body, frames, twin>>
    /\ UNCHANGED <<variant, px, pz, rotY, yaw, pitch, keys, chunks,
                   terrainGroup, nextId, rndPos, rafPending, lastCenter, visited>>

\* PI / 3 in thousandths of a radian
PitchLimit == 1047

\* the pitch after a mouse movement, without the limit on looking up and down
LookPitch_unclamped(p, dy) == p - 2 * dy

\* pitch -= movementY * 0.002; pitch = max(-PI/3, min(PI/3, pitch))
LookPitch(p, dy) == Clamp(p - 2 * dy, -PitchLimit, PitchLimit)

\* mousemove: while the pointer is locked, yaw -= movementX * 0.002,
\* pitch = clamp(pitch - movementY * 0.002, -PI/3, PI/3), player.rotation.y = yaw
MouseMove(dx, dy) ==
    /\ Started
    /\ HasMouse(variant)
    /\ IF pointerLock
       THEN /\ yaw' = yaw - 2 * dx
            /\ pitch' = LookPitch(pitch, dy)
            /\ rotY' = yaw'
            /\ Abs(yaw') <= MaxTurns * 1570
       ELSE UNCHANGED <<yaw, pitch, rotY>>
    /\ UNCHANGED <<systems, body, frames, twin>>
    /\ UNCHANGED <<variant, px, pz, pointerLock, keys, chunks,
                   terrainGroup, nextId, rndPos, rafPending, lastCenter, visited>>

Next ==
    \/ Animate
    \/ \E k \in KeyInputs(variant) : KeyDown(k)
    \/ \E k \in KeyInputs(variant) : KeyUp(k)
    \/ \E t \in {"CANVAS", "INPUT"} : Click(t)
    \/ \E m \in WalkMouse : MouseMove(m[1], m[2])

Spec == Init /\ [][Next]_vars

-----------------------------------------------------------------------------
(* Looking around: the pointer lock and the mouse, with vertical movements *)

\* mouse movements (movementX, movementY): a turn, a look up, a look down
LookMouse == {<<785, 0>>, <<0, 300>>, <<0, -300>>}

\* the browser ends the pointer lock (Escape): document.pointerLockElement is
\* no longer the canvas
ReleasePointer ==
    /\ Started
    /\ HasMouse(variant)
    /\ pointerLock
    /\ pointerLock' = FALSE
    /\ UNCHANGED <<systems, body, frames, twin>>
    /\ UNCHANGED <<variant, px, pz, rotY, yaw, pitch, keys, chunks,
                   terrainGroup, nextId, rndPos, rafPending, lastCenter, visited>>

NextLook ==
    \/ Animate
    \/ \E t \in {"CANVAS", "INPUT"} : Click(t)
    \/ \E m \in LookMouse : MouseMove(m[1], m[2])
    \/ ReleasePointer

SpecLook == Init /\ [][NextLook]_vars

-----------------------------------------------------------------------------
(* Clock, battery and flashlight over the frames, with the F key *)

Systems == [time |-> time, battery |-> batteryLevel, light |-> flashlight]

\* the time slider of part_002: without the focus (<<>>), or focused with the
\* value 3 PI / 2
SliderInputs(v) == IF v = "part2" THEN {<<>>, <<40500>>} ELSE {<<>>}

\* the systems part of animate(): updateLighting and the battery logic
SystemsFrame(slider) ==
    /\ frames[2] < MaxFrames
    /\ LET s == SystemsStep(variant, Systems, slider)
       IN  /\ time' = s.time
           /\ batteryLevel' = s.battery
           /\ flashlight' = s.light
    /\ frames' = <<frames[1], frames[2] + 1>>
    /\ UNCHANGED <<variant, walk, body, twin>>

\* LongRun frames in a row during which no listener runs
SystemsFrames ==
    /\ Started
    /\ frames[1] = 0
    /\ LET s == SystemsRun(variant, Systems, LongRun)
       IN  /\ time' = s.time
           /\ batteryLevel' = s.battery
           /\ flashlight' = s.light
    /\ frames' = <<1, frames[2]>>
    /\ UNCHANGED <<variant, walk, body, twin>>

NextSystems ==
    \/ \E slider \in SliderInputs(variant) : SystemsFrame(slider)
    \/ SystemsFrames
    \/ KeyDown("f")

SpecSystems == Init /\ [][NextSystems]_vars

-----------------------------------------------------------------------------
(* The battery over the frames of a day, with the keyboard and the mouse *)

\* the keys pressed and released: F and a movement key
BatteryKeys == {"f", "w"}

\* one frame of the systems between two events
BatteryFrame(slider) ==
    /\ frames[2] < MaxBatteryFrames
    /\ SystemsFrame(slider)

\* HalfDayRun frames in a row after the script's own animate() call, in a
\* program with a battery, no key held and the pointer free, during which no
\* listener runs
HalfDay ==
    /\ HasBattery(variant)
    /\ frames = <<0, 1>>
    /\ keys = {}
    /\ ~pointerLock
    /\ LET s == SystemsRun(variant, Systems, HalfDayRun)
       IN  /\ time' = s.time
           /\ batteryLevel' = s.battery
           /\ flashlight' = s.light
    /\ frames' = <<1, frames[2]>>
    /\ UNCHANGED <<variant, walk, body, twin>>

NextBattery ==
    \/ \E slider \in SliderInputs(variant) : BatteryFrame(slider)
    \/ HalfDay
    \/ \E k \in BatteryKeys : KeyDown(k)
    \/ \E k \in BatteryKeys : KeyUp(k)
    \/ Click("CANVAS")
    \/ MouseMove(785, 0)

SpecBattery == Init /\ [][NextBattery]_vars

-----------------------------------------------------------------------------

(* The vertical motion over the frames, with the A and Space keys *)

Body == [y |-> py, vy |-> velocityY, canJump |-> canJump, ground |-> ground]

\* the keys pressed and released: A (a step to the side per frame) and Space
BodyKeys == {"a", "space"}

\* the vertical part of animate at the position m the movement leads to
BodyStepAt(v, st, ks, m, b) == BodyStep(v, st, ks, m.x, m.z, b)

\* the player's height, velocity and canJump after a frame
BodyBecomes(b) ==
    /\ py' = b.y
    /\ velocityY' = b.vy
    /\ canJump' = b.canJump
    /\ ground' = b.ground

\* animate() followed for the walk, the chunk store and the vertical motion;
\* the ray is cast at the new position, before the chunks are loaded
BodyFrame ==
    /\ HasJump(variant)
    /\ AnimateWalk
    /\ BodyBecomes(BodyStepAt(variant, Store, keys, Move(variant, keys, px, pz, rotY, yaw), Body))
    /\ UNCHANGED <<systems, twin>>

\* a frame between two events of the keyboard
BodyAnimate ==
    /\ frames[1] \in {0, FallRun}
    /\ frames[2] < MaxBodyFrames
    /\ BodyFrame
    /\ frames' = <<frames[1], frames[2] + 1>>

\* a frame of the run: FallRun frames in a row after the script's own
\* animate() call, with the keys held as they are and no listener running
BodyRun ==
    /\ frames[2] = 1
    /\ frames[1] < FallRun
    /\ BodyFrame
    /\ frames' = <<frames[1] + 1, frames[2]>>

\* the keyboard's listeners run between the frames, outside the run
BodyIdle == frames[1] \in {0, FallRun}

NextBody ==
    \/ BodyAnimate
    \/ BodyRun
    \/ \E k \in BodyKeys : BodyIdle /\ KeyDown(k)
    \/ \E k \in BodyKeys : BodyIdle /\ KeyUp(k)

SpecBody == Init /\ [][NextBody]_vars

-----------------------------------------------------------------------------
(* createChunk on its own: the function applied to coordinates chosen freely *)

\* the coordinates createChunk is called with: a chunk and its four neighbors
GenCoords == {<<0, 0>>, <<1, 0>>, <<-1, 0>>, <<0, 1>>, <<0, -1>>}

\* one call createChunk(x, z)
Generate(x, z) ==
    /\ Cardinality(DOMAIN chunks) < MaxGenChunks \/ Key(x, z) \in DOMAIN chunks
    /\ LET st == createChunk(variant, Store, x, z)
       IN  /\ chunks' = st.chunks
           /\ terrainGroup' = st.group
           /\ nextId' = st.nextId
           /\ rndPos' = st.rnd % Len(RandomTable)
    /\ UNCHANGED <<systems, body, frames, twin>>
    /\ UNCHANGED <<variant, px, pz, rotY, yaw, pitch, pointerLock, keys,
                   rafPending, lastCenter, visited>>

NextGen == \E c \in GenCoords : Generate(c[1], c[2])

SpecGen == Init /\ [][NextGen]_vars

-----------------------------------------------------------------------------
(* The chunk-loading step on its own: run with the player placed freely *)

\* player positions (tenths): the origin, (250, 0), a half-way point of the
\* x axis, a point on the negative z axis and one on the positive z axis
Viewpoints == {<<0, 0>>, <<2500, 0>>, <<-500, 0>>, <<0, -2500>>, <<0, 2500>>}

\* the chunk-loading step of animate with the player at (x, z)
Tick(x, z) ==
    /\ LET st == LoadChunks(variant, Store, x, z)
       IN  /\ chunks' = st.chunks
           /\ terrainGroup' = st.group
           /\ nextId' = st.nextId
           /\ rndPos' = st.rnd % Len(RandomTable)
    /\ px' = x /\ pz' = z
    /\ lastCenter' = CenterOf(variant, x, z)
    /\ visited' = visited \cup {CenterOf(variant, x, z)}
    /\ UNCHANGED <<systems, body, frames, twin>>
    /\ UNCHANGED <<variant, rotY, yaw, pitch, pointerLock, keys, rafPending>>

NextTick == \E p \in Viewpoints : Tick(p[1], p[2])

SpecTick == Init /\ [][NextTick]_vars

-----------------------------------------------------------------------------
(* Two runs of one program, led through the same viewpoints *)

\* the viewpoints both runs are taken through
TwinViewpoints == {<<0, 0>>, <<2500, 0>>, <<0, 2500>>}

\* the chunk-loading step of animate with the player at (x, z), in both runs;
\* the second run reads the random stream at a position of its own
TwinTick(x, z) ==
    /\ LET st == LoadChunks(variant, Store, x, z)
           tw == LoadChunks(variant, twin, x, z)
       IN  /\ chunks' = st.chunks
           /\ terrainGroup' = st.group
           /\ nextId' = st.nextId
           /\ rndPos' = st.rnd % Len(RandomTable)
           /\ twin' = [tw EXCEPT !.rnd = tw.rnd % Len(RandomTable)]
    /\ px' = x /\ pz' = z
    /\ lastCenter' = CenterOf(variant, x, z)
    /\ visited' = visited \cup {CenterOf(variant, x, z)}
    /\ UNCHANGED <<variant, rotY, yaw, pitch, pointerLock, keys, rafPending,
                   systems, body, frames>>

NextTwin == \E p \in TwinViewpoints : TwinTick(p[1], p[2])

SpecTwin == Init /\ [][NextTwin]_vars

-----------------------------------------------------------------------------
(* Properties *)

\* the integer nearest to p / S, a tie going to the larger one
RoundDiv(p, S) ==
    CHOOSE c \in -8 .. 8 : S * (2 * c - 1) <= 2 * p /\ 2 * p < S * (2 * c + 1)

\* the chunk the player at (x, z) stands nearest to
NearestChunk(x, z) ==
    <<RoundDiv(x, chunkSize(variant)), RoundDiv(z, chunkSize(variant))>>

\* the coordinates within Chebyshev distance d of c
Around(c, d) ==
    {k \in ((c[1] - d - 1) .. (c[1] + d + 1)) \X ((c[2] - d - 1) .. (c[2] + d + 1)) :
        Max(Abs(k[1] - c[1]), Abs(k[2] - c[2])) <= d}

\* an input handler runs
Handler ==
    \/ \E k \in KeyInputs(variant) : KeyDown(k) \/ KeyUp(k)
    \/ \E t \in {"CANVAS", "INPUT"} : Click(t)
    \/ \E m \in WalkMouse : MouseMove(m[1], m[2])

\* C1: in every reachable state there is one chunk object per stored
\* coordinate: terrainGroup has exactly one child for each key of the map, the
\* children are the mapped objects, no object occurs twice, and no chunk object
\* was ever built beyond the stored ones (no coordinate was built a second time).
C1_OneChunkPerCoordinate ==
    /\ Len(terrainGroup) = Cardinality(DOMAIN chunks)
    /\ {terrainGroup[i] : i \in 1 .. Len(terrainGroup)}
          = {chunks[k].id : k \in DOMAIN chunks}
    /\ Cardinality({chunks[k].id : k \in DOMAIN chunks}) = Cardinality(DOMAIN chunks)
    /\ nextId = Cardinality(DOMAIN chunks)

\* a second window was loaded over the first one in part_003: 49 + 7 chunks
C1_Witness ==
    /\ variant = "part3"
    /\ Cardinality(visited) = 2
    /\ Len(terrainGroup) = 56

\* C2: createChunk is idempotent: for every stored coordinate, a further call
\* createChunk(cx, cz) returns the store as it is: same map, same
\* terrainGroup, the same chunk object with the same surface, nothing
\* allocated and no random number drawn.
C2_CreateChunkIdempotent ==
    \A k \in DOMAIN chunks :
        LET after == createChunk(variant, Store, k[1], k[2])
        IN  /\ after = Store
            /\ after.chunks[k].id = chunks[k].id
            /\ after.chunks[k].surface = chunks[k].surface

\* part_002 after frames that called createChunk on its 25 stored coordinates
C2_Witness ==
    /\ variant = "part2"
    /\ pz < 0
    /\ nextId = 25
    /\ Len(chunks[<<0, 0>>].trees) = 8

\* C3: a frame leaves in the store every one of the (2d+1)^2 coordinates within
\* Chebyshev distance d of (round(p.x/S), round(p.z/S)), p the player position
\* the frame's chunk loading reads, and no coordinate other than those and
\* the ones stored before the frame.
C3_FrameLoadsWindow ==
    [][Animate =>
        LET W == Around(NearestChunk(px', pz'), renderDist(variant))
        IN  /\ Cardinality(W) = (2 * renderDist(variant) + 1) * (2 * renderDist(variant) + 1)
            /\ W \subseteq DOMAIN chunks'
            /\ DOMAIN chunks' \subseteq (DOMAIN chunks \cup W)]_vars

\* part_002 has crossed into chunk (0, -1): 25 chunks and a further row of 5
C3_Witness ==
    /\ variant = "part2"
    /\ lastCenter = <<0, -1>>
    /\ Cardinality(DOMAIN chunks) = 30

\* two chunk coordinates whose squares share an edge
EdgeAdjacent(k1, k2) == Abs(k1[1] - k2[1]) + Abs(k1[2] - k2[2]) = 1

\* the grid vertices on the rim of the plane
BorderVertices(v) ==
    {vert \in PlaneVertices(v) :
        vert[1] \in {0, Segments(v)} \/ vert[2] \in {0, Segments(v)}}

\* where chunk c draws its vertex vert
DrawnAt(c, vert) ==
    RenderedAt(c, LocalX(variant, vert), LocalY(variant, vert),
               StoredHeight(variant, c, LocalX(variant, vert), LocalY(variant, vert)))

\* the rim vertices of chunk c, each with the world point it is drawn at
DrawnRim(c) == {<<vert, DrawnAt(c, vert)>> : vert \in BorderVertices(variant)}

\* C4: tiling continuity: two edge-adjacent stored chunks meet in the n + 1
\* grid points of their shared edge, and at each of them both chunks passed
\* the same world (x, z) to getHeight and store the same elevation (in the
\* biome variant too).
C4_SharedEdgeSameElevation ==
    \A k1, k2 \in DOMAIN chunks :
        EdgeAdjacent(k1, k2) =>
            LET rim1 == DrawnRim(chunks[k1])
                rim2 == DrawnRim(chunks[k2])
                shared == {pair \in rim1 \X rim2 : pair[1][2] = pair[2][2]}
            IN  /\ Cardinality(shared) = Segments(variant) + 1
                /\ \A pair \in shared :
                      LET lx1 == LocalX(variant, pair[1][1])
                          ly1 == LocalY(variant, pair[1][1])
                          lx2 == LocalX(variant, pair[2][1])
                          ly2 == LocalY(variant, pair[2][1])
                      IN  /\ SampledAt(chunks[k1], lx1, ly1)
                                = SampledAt(chunks[k2], lx2, ly2)
                          /\ StoredHeight(variant, chunks[k1], lx1, ly1)
                                = StoredHeight(variant, chunks[k2], lx2, ly2)

\* the biome variant holds chunk (0, 0) and its neighbor (0, -1), whose
\* shared edge has heights other than zero
C4_Witness ==
    /\ variant = "part2"
    /\ {<<0, 0>>, <<0, -1>>} \subseteq DOMAIN chunks
    /\ \E vert \in BorderVertices(variant) :
          /\ LocalY(variant, vert) = chunkSize(variant) \div 2
          /\ StoredHeight(variant, chunks[<<0, 0>>],
                          LocalX(variant, vert), LocalY(variant, vert)) # 0

\* C5: for every stored chunk (cx, cz) and every grid vertex (lx, ly), the
\* stored height is getHeight(cx*S + lx, cz*S - ly), and (cx*S + lx, cz*S - ly)
\* is the world (x, z) at which the vertex is drawn after the rotation by
\* -90 degrees about X and the translation to (cx*S, 0, cz*S).
C5_HeightAtRenderedPoint ==
    \A k \in DOMAIN chunks : \A vert \in PlaneVertices(variant) :
        LET lx == LocalX(variant, vert)
            ly == LocalY(variant, vert)
            wx == k[1] * chunkSize(variant) + lx
            wz == k[2] * chunkSize(variant) - ly
        IN  /\ StoredHeight(variant, chunks[k], lx, ly) = getHeight(variant, wx, wz)
            /\ DrawnAt(chunks[k], vert) = <<wx, wz>>

\* part_003 holds chunk (0, -1) and part of its surface is above zero
C5_Witness ==
    /\ variant = "part3"
    /\ <<0, -1>> \in DOMAIN chunks
    /\ \E vert \in PlaneVertices(variant) :
          StoredHeight(variant, chunks[<<0, -1>>],
                       LocalX(variant, vert), LocalY(variant, vert)) > 0

\* C6: the store never evicts: no step removes a stored coordinate, a frame
\* adds only coordinates of its window, and the stored coordinates are at all
\* times the union of the (2d+1)^2 windows around the center chunks visited.
C6_StoreIsUnionOfWindows ==
    /\ [](DOMAIN chunks = UNION {Around(c, renderDist(variant)) : c \in visited})
    /\ [][/\ DOMAIN chunks \subseteq DOMAIN chunks'
          /\ DOMAIN chunks' \subseteq
                (DOMAIN chunks \cup Around(NearestChunk(px', pz'), renderDist(variant)))]_vars

\* part_001 has been in the chunks (0, 0) and (1, 0): 49 + 7 chunks
C6_Witness ==
    /\ variant = "part1"
    /\ visited = {<<0, 0>>, <<1, 0>>}
    /\ Cardinality(DOMAIN chunks) = 56

\* C7: with S = 100 and render distance 2, from the empty store the
\* chunk-loading step at viewpoint (0, 0) leaves exactly the 25 chunks with
\* cx, cz in -2..2; a later step at viewpoint (250, 0) uses center chunk (3, 0)
\* and leaves the chunks with cx in 1..5 and cz in -2..2 stored.
C7_ViewpointScenario ==
    (chunkSize(variant) = 1000 /\ renderDist(variant) = 2) =>
        /\ (visited = {<<0, 0>>} /\ px = 0 /\ pz = 0) =>
              /\ DOMAIN chunks = (-2 .. 2) \X (-2 .. 2)
              /\ Cardinality(DOMAIN chunks) = 25
              /\ Len(terrainGroup) = 25
        /\ (<<0, 0>> \in visited /\ px = 2500 /\ pz = 0) =>
              /\ lastCenter = <<3, 0>>
              /\ (1 .. 5) \X (-2 .. 2) \subseteq DOMAIN chunks

\* the second program of part_000 ran the step at (0, 0), then at (250, 0)
C7_Witness ==
    /\ variant = "part0_2"
    /\ visited = {<<0, 0>>, <<3, 0>>}
    /\ px = 2500 /\ pz = 0
    /\ Cardinality(DOMAIN chunks) = 40

\* C8: a frame whose center chunk (round(p.x/S), round(p.z/S)) equals the
\* previous frame's creates no chunk: the map, terrainGroup and the number of
\* chunk objects built are unchanged.
C8_SameCenterNoOp ==
    [][(Started /\ Animate /\ NearestChunk(px', pz') = NearestChunk(px, pz)) =>
          UNCHANGED <<chunks, terrainGroup, nextId>>]_vars

\* part_003 has walked on inside chunk (0, -1) after crossing into it
C8_Witness ==
    /\ variant = "part3"
    /\ pz = -510
    /\ lastCenter = <<0, -1>>
    /\ nextId = 56

\* C9: the keydown, keyup, click and mousemove handlers leave the chunk map
\* and terrainGroup unchanged, and once the script has run exactly one frame
\* callback is pending between callbacks.
C9_MutationOnlyInFrames ==
    /\ [](Started => rafPending = 1)
    /\ [][Handler => UNCHANGED <<chunks, terrainGroup, nextId>>]_vars

\* the second program of part_000 between frames, all four handlers having run
C9_Witness ==
    /\ variant = "part0_2"
    /\ pointerLock /\ yaw # 0 /\ "w" \in keys
    /\ rafPending = 1
    /\ Cardinality(DOMAIN chunks) > 25

\* the chunk's trees are all there: part_002 adds each one it draws,
\* script.js each one it draws on ground above waterLevel + 0.5
TreesComplete(k) ==
    /\ variant = "part2" => Len(chunks[k].trees) = TreeDraws(variant, k[1], k[2])
    /\ variant = "script_2" =>
          /\ Len(chunks[k].trees) <= 15
          /\ \A i \in 1 .. Len(chunks[k].trees) :
                chunks[k].trees[i].ty > waterLevel + 500
    /\ ~HasTrees(variant) => chunks[k].trees = <<>>

\* C10: in every state between callbacks each stored coordinate maps to a
\* complete chunk that is in the scene (all (n+1)^2 heights of its grid
\* written, its water plane and its trees present where the program has them,
\* the object a child of terrainGroup), and each child has a map entry.
C10_StoredChunksComplete ==
    /\ \A k \in DOMAIN chunks :
          /\ chunks[k].surface.written = (Segments(variant) + 1) * (Segments(variant) + 1)
          /\ HasWater(variant) => chunks[k].water = <<waterLevel>>
          /\ TreesComplete(k)
          /\ \E i \in 1 .. Len(terrainGroup) : terrainGroup[i] = chunks[k].id
    /\ \A i \in 1 .. Len(terrainGroup) :
          \E k \in DOMAIN chunks : chunks[k].id = terrainGroup[i]

\* script.js (second program) holds a chunk on which some of the 15 drawn
\* trees grew and some fell on ground too low
C10_Witness ==
    /\ variant = "script_2"
    /\ \E k \in DOMAIN chunks :
          /\ chunks[k].water # <<>>
          /\ Len(chunks[k].trees) > 0
          /\ Len(chunks[k].trees) < 15

\* C13: the pitch stays within [-PI/3, PI/3] in every reachable state, and a
\* mousemove received while the pointer is not locked leaves pitch, yaw and the
\* player rotation as they were.
C13_PitchLimitedAndLockGated ==
    /\ [](-PitchLimit <= pitch /\ pitch <= PitchLimit)
    /\ [][(~pointerLock /\ \E m \in LookMouse : MouseMove(m[1], m[2]))
             => UNCHANGED <<pitch, yaw, rotY>>]_vars

\* the view was turned and raised to the limit under the lock, then the lock
\* was released: a further mousemove arrives with the pointer not locked
C13_Witness ==
    /\ HasMouse(variant)
    /\ ~pointerLock
    /\ pitch = PitchLimit
    /\ yaw # 0

\* C20: the center chunk of a frame is the chunk whose footprint contains the
\* viewpoint: on each axis |p - c*S| <= S/2, and a position half-way between
\* two chunk centers belongs to the larger coordinate, for positive and
\* negative positions alike (S = 100: p = 250 gives 3, p = -250 gives -2).
C20_CenterContainsViewpoint ==
    Started =>
        LET S == chunkSize(variant)
            Holds(p, c) == /\ 2 * Abs(p - c * S) <= S
                           /\ 2 * (p - c * S) # S
                           /\ (S = 1000 /\ p = 2500) => c = 3
                           /\ (S = 1000 /\ p = -2500) => c = -2
        IN  Holds(px, lastCenter[1]) /\ Holds(pz, lastCenter[2])

\* a program with S = 100 ran the chunk-loading step at viewpoint (0, -250),
\* half-way between the chunks -3 and -2 of the z axis
C20_Witness ==
    /\ chunkSize(variant) = 1000
    /\ px = 0 /\ pz = -2500
    /\ lastCenter = <<0, -2>>

\* the snow weight clamp(z / 500, 0, 1) at the center of a chunk of row cz, in
\* thousandths, for chunks of size 120
SnowAtRow(cz) == Clamp((cz * 1200) \div 5, 0, 1000)

\* C16: in the biome program a chunk's surface color and tree count come from
\* getBiomeData at the chunk's center (cx*S, cz*S) and stay as created: 3 trees
\* when the snow weight there exceeds 0.7 and 8 otherwise, so with S = 120
\* exactly the chunks with cz >= 3 have 3 trees.
C16_BiomeFromChunkCenter ==
    /\ [](variant = "part2" =>
            \A k \in DOMAIN chunks :
                LET data == getBiomeData(k[1] * chunkSize(variant),
                                         k[2] * chunkSize(variant))
                IN  /\ chunks[k].biome = data.color
                    /\ data.snow = SnowAtRow(k[2])
                    /\ Len(chunks[k].trees) = (IF data.snow > 700 THEN 3 ELSE 8)
                    /\ Len(chunks[k].trees) \in {3, 8}
                    /\ Len(chunks[k].trees) = 3 <=> k[2] >= 3)
    /\ [][\A k \in DOMAIN chunks :
             /\ k \in DOMAIN chunks'
             /\ chunks'[k].biome = chunks[k].biome
             /\ Len(chunks'[k].trees) = Len(chunks[k].trees)]_vars

\* part_002 holds chunks of the rows 2, 3 and 4 beside each other, and a
\* chunk away from the z axis in the snowy rows
C16_Witness ==
    /\ variant = "part2"
    /\ {<<0, 2>>, <<0, 3>>, <<2, 4>>, <<3, 0>>} \subseteq DOMAIN chunks
    /\ Len(chunks[<<0, 2>>].trees) = 8
    /\ Len(chunks[<<2, 4>>].trees) = 3

\* world (x, z) at which a tree of the chunk object c is drawn: the chunk
\* group's position plus the tree group's local position
TreeDrawnAt(c, t) == <<c.position[1] + t.tx, c.position[2] + t.tz>>

\* C14: every tree of a stored chunk (cx, cz), placed at local offset (tx, tz),
\* has the height getHeight(cx*S + tx, cz*S + tz), that point is the world
\* position at which the tree is drawn, and the offsets lie within
\* [-S/2, S/2], inside the chunk's footprint.
C14_TreeOnSurface ==
    \A k \in DOMAIN chunks : \A i \in 1 .. Len(chunks[k].trees) :
        LET t  == chunks[k].trees[i]
            S  == chunkSize(variant)
            wx == k[1] * S + t.tx
            wz == k[2] * S + t.tz
        IN  /\ t.ty = getHeight(variant, wx, wz)
            /\ TreeDrawnAt(chunks[k], t) = <<wx, wz>>
            /\ 2 * Abs(t.tx) <= S /\ 2 * Abs(t.tz) <= S
            /\ 2 * Abs(wx - k[1] * S) <= S /\ 2 * Abs(wz - k[2] * S) <= S

\* a program with trees holds a chunk away from the origin with a tree on
\* the chunk's western edge and a tree on ground that is not level with zero
C14_Witness ==
    /\ HasTrees(variant)
    /\ \E k \in DOMAIN chunks \ {<<0, 0>>} :
          /\ \E i \in 1 .. Len(chunks[k].trees) :
                2 * chunks[k].trees[i].tx = -chunkSize(variant)
          /\ \E i \in 1 .. Len(chunks[k].trees) : chunks[k].trees[i].ty # 0

\* the candidate positions (0..14) of chunk k, drawn from stream position r,
\* whose ground is above waterLevel + 0.5
DryCandidates(k, r) ==
    {i \in 0 .. 14 : TreeAt(variant, k[1], k[2], r, i).ty > waterLevel + 500}

\* C15: in the water program no stored chunk has a tree whose ground height is
\* at or below waterLevel + 0.5 = -1.0; of the 15 candidate positions drawn for
\* a chunk exactly those with a height above -1.0 become trees, so a chunk has
\* between 0 and 15 trees; and it has exactly one water plane, at y = -1.5.
C15_NoTreeInWater ==
    /\ [](HasWater(variant) =>
            \A k \in DOMAIN chunks :
                /\ \A i \in 1 .. Len(chunks[k].trees) : chunks[k].trees[i].ty > -1000
                /\ Len(chunks[k].trees) \in 0 .. 15
                /\ Len(chunks[k].water) = 1
                /\ chunks[k].water[1] = -1500)
    /\ [][HasWater(variant) =>
            \A k \in (DOMAIN chunks') \ (DOMAIN chunks) :
                Len(chunks'[k].trees) = Cardinality(DryCandidates(k, rndPos))]_vars

\* the second program of script.js holds a chunk for which some of the 15
\* candidates were on wet ground and some were not
C15_Witness ==
    /\ variant = "script_2"
    /\ \E k \in DOMAIN chunks :
          /\ Len(chunks[k].trees) > 0
          /\ Len(chunks[k].trees) < 15
          /\ Len(chunks[k].water) = 1

\* C12: in every program with a battery the battery level is within [0, 100]
\* at the end of every frame, for any sequence of frames, day and night phases
\* and F key presses.
C12_BatteryWithinRange ==
    HasBattery(variant) => (0 <= batteryLevel /\ batteryLevel <= FullBattery)

\* C18: in every program and every reachable state an F keydown received
\* while the flashlight is on turns it off; in the programs without a battery
\* every F keydown flips the flashlight, so two presses in a row restore it.
C18_FTurnsFlashlightOff ==
    LET press(light) == ToggleFlashlight(variant, batteryLevel, light)
    IN  /\ flashlight => ~press(flashlight)
        /\ ~HasBattery(variant) =>
              /\ press(flashlight) = ~flashlight
              /\ press(press(flashlight)) = flashlight

\* C11: the terrain is deterministic: two runs of a program led through the
\* same sequence of viewpoints hold the same set of chunk coordinates and the
\* same surface heights in every chunk, whatever Math.random() returned in
\* either run; only the trees may differ.  (The surface a chunk stores is
\* compared whole, the heights read from it along the rim.)
C11_TerrainDeterministic ==
    /\ DOMAIN chunks = DOMAIN twin.chunks
    /\ \A k \in DOMAIN chunks :
          /\ chunks[k].surface = twin.chunks[k].surface
          /\ chunks[k].position = twin.chunks[k].position
          /\ \A vert \in BorderVertices(variant) :
                StoredHeight(variant, chunks[k],
                             LocalX(variant, vert), LocalY(variant, vert))
                  = StoredHeight(variant, twin.chunks[k],
                                 LocalX(variant, vert), LocalY(variant, vert))

\* the two runs have been at two viewpoints and hold a chunk whose trees
\* stand at different places in the two runs
C11_Witness ==
    /\ Cardinality(visited) = 2
    /\ \E k \in DOMAIN chunks :
          /\ k \in DOMAIN twin.chunks
          /\ chunks[k].trees # twin.chunks[k].trees
          /\ chunks[k].trees # <<>>

\* the height of the terrain mesh under the player
TerrainUnderPlayer ==
    LET k == CenterOf(variant, px, pz)
    IN  MeshHeight(variant, chunks[k], k, px, pz)

\* the player stands on a vertex of the terrain grid
OnGridVertex ==
    LET e == chunkSize(variant) \div Segments(variant)
    IN  px % e = 0 /\ pz % e = 0

\* C17: the ground height a frame snaps the player to is the height of the
\* terrain surface at the player's (x, z), which at the grid vertices is
\* getHeight(x, z), plus the program's fixed offset; it is never the height of
\* a tree or of the water plane.
C17_GroundIsTerrain ==
    HasJump(variant) =>
        \A i \in 1 .. Len(ground) :
            /\ ground[i] = TerrainUnderPlayer + StandHeight(variant)
            /\ OnGridVertex =>
                  ground[i] = getHeight(variant, px, pz) + StandHeight(variant)

\* C19: Space starts a jump only from the ground: a Space keydown (in
\* part_002 the frame that finds keys.space set) gives the player upward
\* velocity only if the latest frame left the player resting on the ground;
\* no press while the player is in the air starts a new jump.
C19_JumpOnlyFromGround ==
    [][(\/ KeyDown("space") /\ velocityY' > velocityY
        \/ variant = "part2" /\ BodyFrame /\ "space" \in keys /\ canJump)
          => ground # <<>>]_vars

\* C22: in the program with updateSystems (the second of part_000) an empty
\* battery implies that the flashlight is off, in every state: the frame that
\* drains the battery to 0 switches the flashlight off, and an F keydown
\* received at level 0 leaves it off.
C22_EmptyBatteryFlashlightOff ==
    (variant = "part0_2" /\ batteryLevel <= 0) =>
        /\ ~flashlight
        /\ ~ToggleFlashlight(variant, batteryLevel, flashlight)

\* the flashlight has drained the battery of that program to 0 in the run of
\* frames and is off
C22_Witness ==
    /\ variant = "part0_2"
    /\ frames[1] = 1
    /\ batteryLevel = 0
    /\ ~flashlight

\* C23: in the programs with a battery a frame lowers the battery level only
\* if the flashlight is on when the frame starts, raises it only if the
\* flashlight is off, the sun of that frame is above the horizon and the level
\* is below 100, and leaves it unchanged if the flashlight is off at night;
\* over a run of frames the level falls only with the flashlight on and rises
\* only with it off; the listeners of the keyboard and the mouse never change
\* the level.
C23_BatteryDynamics ==
    [][HasBattery(variant) =>
          IF frames'[2] = frames[2] + 1
          THEN /\ batteryLevel' < batteryLevel => flashlight
               /\ batteryLevel' > batteryLevel =>
                     /\ ~flashlight
                     /\ IsDay(variant, time')
                     /\ batteryLevel < FullBattery
               /\ (~flashlight /\ ~IsDay(variant, time')) => batteryLevel' = batteryLevel
          ELSE IF frames'[1] = frames[1] + 1
          THEN /\ batteryLevel' < batteryLevel => flashlight
               /\ batteryLevel' > batteryLevel => ~flashlight
          ELSE batteryLevel' = batteryLevel]_vars

\* part_002 after four frames: one with the flashlight on, one recharging by
\* day, and the last one, with the time slider at night, leaving the level
\* below 100 as it was
C23_Witness ==
    /\ variant = "part2"
    /\ frames = <<0, 4>>
    /\ time = 40500
    /\ ~flashlight
    /\ batteryLevel = FullBattery - Drain(variant) + Recharge(variant)

\* the programs whose animate() casts the ground ray before its chunk-loading
\* step: part_003 and the three programs with a jump
CastsBeforeLoading(v) == v \in {"script_2", "part0_2", "part2", "part3"}

\* where the movement block of the next frame leaves the player
NextPosition == Move(variant, keys, px, pz, rotY, yaw)

\* the chunks stored at the moment the next frame casts its ground ray
StoredAtRayCast ==
    IF CastsBeforeLoading(variant)
    THEN DOMAIN chunks
    ELSE DOMAIN LoadChunks(variant, Store, NextPosition.x, NextPosition.z).chunks

\* C21: once the first frame has run, in every program the chunk whose
\* footprint holds the player's position at the ground ray cast of a frame is
\* stored when the ray is cast, also where the ray is cast before the chunks
\* of that frame are loaded: whatever keys are held and wherever the player
\* looks, the frame's movement leaves the player within the window the frame
\* before has loaded.
C21_RayCastChunkStored ==
    Started => CenterOf(variant, NextPosition.x, NextPosition.z) \in StoredAtRayCast

\* a program casting before loading, about to cast its ray in a chunk other
\* than the one the last frame took as the center
C21_Witness ==
    /\ Started
    /\ CastsBeforeLoading(variant)
    /\ CenterOf(variant, NextPosition.x, NextPosition.z) # lastCenter
    /\ CenterOf(variant, NextPosition.x, NextPosition.z) \in DOMAIN chunks

\* the frame that ended at (x, z) has put the player b on the terrain, at
\* rest and free to jump
Landed(v, st, x, z, b) ==
    /\ b.ground # <<>>
    /\ b.vy = 0
    /\ b.canJump
    /\ b.y = MeshHeight(v, st.chunks[CenterOf(v, x, z)], CenterOf(v, x, z), x, z)
                + StandHeight(v)

\* the player at the end of a frame that started from s: landed, or at rest
\* (the frame has changed nothing, so no later frame will)
FrameEnd(v, st, s, x, z, b) ==
    [x |-> x, z |-> z, b |-> b,
     landed |-> Landed(v, st, x, z, b),
     rest   |-> x = s.x /\ z = s.z /\ b = s.b]

\* the frames that follow s = [x, z, b, landed, rest] with the keys ks held
\* and no listener running, up to the first that leaves the player landed or
\* at rest, n at most
RECURSIVE FramesOn(_, _, _, _, _, _, _)
FramesOn(v, st, ks, rot, yw, s, n) ==
    IF s.landed \/ s.rest \/ n = 0 THEN s
    ELSE IF n = 1
    THEN LET m == Move(v, ks, s.x, s.z, rot, yw)
         IN  FrameEnd(v, st, s, m.x, m.z, BodyStepAt(v, st, ks, m, s.b))
    ELSE LET mid == FramesOn(v, st, ks, rot, yw, s, n \div 2)
         IN  IF mid.landed \/ mid.rest THEN mid
             ELSE FramesOn(v, st, ks, rot, yw, mid, n - n \div 2)

\* a step that starts a jump: the keydown of Space that sets velocityY, in
\* part_002 the frame that finds keys.space and canJump set
JumpStarts ==
    /\ HasJump(variant)
    /\ \/ KeyDown("space") /\ velocityY' > velocityY
       \/ variant = "part2" /\ BodyFrame /\ "space" \in keys /\ canJump

\* the frames that follow the step that started a jump, the keys held as they
\* are after it
AfterJump ==
    FramesOn(variant,
             [chunks |-> chunks', group |-> terrainGroup', nextId |-> nextId', rnd |-> rndPos'],
             keys', rotY', yaw',
             [x |-> px', z |-> pz', landed |-> FALSE, rest |-> FALSE,
              b |-> [y |-> py', vy |-> velocityY', canJump |-> canJump', ground |-> ground']],
             JumpSpan)

\* the jump ends: the frames land the player, within JumpSpan frames if the
\* player is not walking, and do not bring the player to rest anywhere else
JumpEnds ==
    \/ AfterJump.landed
    \/ ~AfterJump.rest /\ keys' \cap {"w", "a", "s", "d"} # {}

\* the ground ray of the latest frame was cast over stored terrain
TerrainWasHit == HasJump(variant) /\ frames[1] + frames[2] >= 2

\* C24: every jump ends: in the programs with a jump, the frames that follow
\* a jump started by Space bring the player back onto the terrain with
\* velocityY = 0 and canJump set (with no movement key held within JumpSpan
\* frames, and never to rest anywhere but on the terrain); and at the end of
\* every frame whose ray hits the terrain
\* under the player the player's y is at least the terrain height plus the
\* program's fixed offset.
C24_EveryJumpEnds ==
    /\ [](TerrainWasHit => py >= TerrainUnderPlayer + StandHeight(variant))
    /\ [][JumpStarts => JumpEnds]_vars

====
